---- MODULE Spec2Model ----
(***************************************************************************)
(* Model of the graph fraud-detection pipeline:                            *)
(*   src/src/load_to_neo4j.py   (Graph Ingestor, load_batch)               *)
(*   src/src/run_algorithms.py  (Risk Scorer)                              *)
(*   src/src/preprocess_data.py (Attribute Synthesizer)                    *)
(*                                                                         *)
(* The graph store is modelled by what the Cypher statements of the source *)
(* do to it.  Every node of a committed graph carries exactly one label,   *)
(* and setup_constraints makes id unique per label, so a node is named by  *)
(* the pair (id, label); a relabel renames the node in every edge and in   *)
(* the property map.                                                       *)
(***************************************************************************)
EXTENDS Integers, Sequences, FiniteSets, TLC

VARIABLES
    nodes,      \* graph store: set of nodes [id, label]
    rels,       \* graph store: USES_DEVICE / LOCATED_IN / HAS_PHONE / HAS_EMAIL edges
    txs,        \* graph store: TRANSACTS_WITH edges with their properties
    attrs,      \* graph store: risk properties of the User/Merchant nodes
    err,        \* TRUE iff the last execute_write(load_batch, ...) raised
    log,        \* the batches handed to load_batch so far, in order
    rerun,      \* whether main() was run again on the same CSV, and the
                \* node and edge counts it started from
    fn,         \* preprocess_data.py: the function that runs in this behaviour
    pc,         \* preprocess_data.py: where that function is
    out,        \* preprocess_data.py: the DataFrame `out`, one sequence per column
    for_sender, \* device_for_sender / phone_for_sender / email_for_sender
    shuffled,   \* the shuffled list of senders
    i,          \* the cursor into shuffled (counted from 0)
    group,      \* for each sender, the sharing group it was placed in (0: none);
                \* a group is named by 1 + the cursor it started at
    rpc,        \* run_algorithms.py: the last step of the script that ran
    risk_rows   \* run_algorithms.py: `rows`, the exported risk table

ingestVars == <<nodes, rels, txs, attrs, err, log, rerun>>
synthVars == <<fn, pc, out, for_sender, shuffled, i, group>>
riskVars == <<rpc, risk_rows>>
vars == <<nodes, rels, txs, attrs, err, log, rerun,
          fn, pc, out, for_sender, shuffled, i, group, rpc, risk_rows>>

(***************************************************************************)
(* Bounds and input domains                                                *)
(***************************************************************************)
MaxRecords == 3     \* rows of the CSV: records over all batches of a behaviour

Ids == {"a", "b"}                    \* hashed identities (sender_id / receiver_id)
TxIds == {"T1", "T2"}                \* transaction_id values
ReceiverTypes == {"user", "merchant"}

\* The remaining columns of a CSV row, drawn together from two variants.
Variants ==
    { [amount |-> 10, timestamp |-> "t1", label |-> 0, sender_device_id |-> "D1",
       sender_location |-> "L1", sender_phone |-> "P1", sender_email |-> "E1"],
      [amount |-> 20, timestamp |-> "t2", label |-> 1, sender_device_id |-> "D2",
       sender_location |-> "L1", sender_phone |-> "P1", sender_email |-> "E2"] }

\* One row of sampled_momo_transactions.csv as main() hands it to load_batch.
Row(tx, s, t, ty, v) ==
    [transaction_id |-> tx, sender_id |-> s, receiver_id |-> t, receiver_type |-> ty,
     amount |-> v.amount, timestamp |-> v.timestamp, label |-> v.label,
     sender_device_id |-> v.sender_device_id, sender_location |-> v.sender_location,
     sender_phone |-> v.sender_phone, sender_email |-> v.sender_email]

Records ==
    { Row(tx, s, t, ty, v) : tx \in TxIds, s \in Ids, t \in Ids,
                             ty \in ReceiverTypes, v \in Variants }

\* The rows the ingestor is run on.  PaySim never has nameOrig = nameDest;
\* transaction T1 comes with either variant of the values (a re-ingestion
\* with changed values), T2 with the first only.
IngestRecords ==
    { r \in Records : /\ r.sender_id # r.receiver_id
                      /\ (r.transaction_id = "T1" \/ r.sender_device_id = "D1") }

SeqsUpTo(S, n) == UNION { [1..k -> S] : k \in 1..n }

Perms(n) == { f \in [1..n -> 1..n] : \A x, y \in 1..n : f[x] = f[y] => x = y }

RECURSIVE Total(_)
Total(batches) ==
    IF batches = <<>> THEN 0 ELSE Len(Head(batches)) + Total(Tail(batches))

(***************************************************************************)
(* Graph store                                                             *)
(***************************************************************************)
N(id, label) == [id |-> id, label |-> label]

\* The nodes that stand for identities.
Identities(ns) == { n \in ns : n.label \in {"User", "Merchant"} }

\* Risk properties of a node; NULL is an absent property.
NULL == -1
NoAttrs == [pr |-> NULL, triangles |-> NULL, coUsers |-> NULL,
            suspicious |-> NULL, highRisk |-> NULL]

Graph(ns, rs, ts, as) == [nodes |-> ns, rels |-> rs, txs |-> ts, attrs |-> as]

NoRerun == [done |-> FALSE, nodes |-> 0, edges |-> 0]

\* The scorer is not running and has exported nothing.
RiskIdle == rpc = "idle" /\ risk_rows = <<>>

EmptyGraph == Graph({}, {}, {}, <<>>)

\* Order in which the matches of a label-free MERGE are listed.
LabelOrder == <<"User", "Merchant", "Device", "Location", "Phone", "Email">>

(***************************************************************************)
(* load_batch: one Cypher statement.  A statement's clauses run in order,  *)
(* each over the whole table of rows UNWIND produced, each seeing the      *)
(* writes of the clauses before it.                                        *)
(***************************************************************************)

\* MERGE (s:User {id: r.sender_id}): matches only a node labelled User.
MergeSender(ns, rows) ==
    ns \cup { N(rows[k].sender_id, "User") : k \in DOMAIN rows }

\* MERGE (t {id: r.receiver_id}) ON CREATE SET t:User.
\* Matches every node with that id, whatever its label; one row per match.
RECURSIVE MergeReceiver(_, _, _)
MergeReceiver(ns, rows, k) ==
    IF k > Len(rows) THEN [nodes |-> ns, binds |-> <<>>]
    ELSE LET r      == rows[k]
             found  == { n \in ns : n.id = r.receiver_id }
             made   == N(r.receiver_id, "User")
             ns1    == IF found = {} THEN ns \cup {made} ELSE ns
             ts     == IF found = {} THEN {made} ELSE found
             here   == [j \in 1..Len(LabelOrder) |->
                           [r |-> r, s |-> N(r.sender_id, "User"),
                            t |-> N(r.receiver_id, LabelOrder[j])]]
             mine   == SelectSeq(here, LAMBDA b : b.t \in ts)
             rest   == MergeReceiver(ns1, rows, k + 1)
         IN  [nodes |-> rest.nodes, binds |-> mine \o rest.binds]

\* The node a binding made before the FOREACH denotes after the ids in rl
\* were relabelled.
Cur(n, rl) == IF n.label = "User" /\ n.id \in rl THEN N(n.id, "Merchant") ELSE n

\* FOREACH (_ IN CASE WHEN r.receiver_type = 'merchant' ...| SET t:Merchant REMOVE t:User)
\* SET t:Merchant raises when another Merchant node holds the id (merch_id).
RECURSIVE Relabel(_, _, _, _)
Relabel(ns, binds, k, rl) ==
    IF k > Len(binds) THEN [ok |-> TRUE, nodes |-> ns, rl |-> rl]
    ELSE LET b == binds[k]
             t == Cur(b.t, rl)
         IN  IF b.r.receiver_type # "merchant" \/ t.label = "Merchant"
             THEN Relabel(ns, binds, k + 1, rl)
             ELSE IF N(t.id, "Merchant") \in ns
                  THEN [ok |-> FALSE, nodes |-> ns, rl |-> rl]
                  ELSE Relabel((ns \ {t}) \cup {N(t.id, "Merchant")}, binds, k + 1,
                               rl \cup {t.id})

\* MERGE (d:Device ...) MERGE (s)-[:USES_DEVICE]->(d), and the same for
\* Location, Phone and Email.
ResourceNodes(binds) ==
    UNION { { N(binds[k].r.sender_device_id, "Device"),
              N(binds[k].r.sender_location, "Location"),
              N(binds[k].r.sender_phone, "Phone"),
              N(binds[k].r.sender_email, "Email") } : k \in DOMAIN binds }

Rel(type, src, dst) == [type |-> type, src |-> src, dst |-> dst]

ResourceRels(binds, rl) ==
    UNION { LET b == binds[k]
                s == Cur(b.s, rl)
            IN  { Rel("USES_DEVICE", s, N(b.r.sender_device_id, "Device")),
                  Rel("LOCATED_IN", s, N(b.r.sender_location, "Location")),
                  Rel("HAS_PHONE", s, N(b.r.sender_phone, "Phone")),
                  Rel("HAS_EMAIL", s, N(b.r.sender_email, "Email")) }
          : k \in DOMAIN binds }

\* The edge MERGE creates: ON CREATE SET x.amount = toFloat(r.amount),
\* x.timestamp = r.timestamp, x.label = toInteger(r.label).  The CSV columns
\* are numeric already, so both conversions keep the value.
NewTx(s, t, r) ==
    [src |-> s, dst |-> t, txid |-> r.transaction_id,
     amount |-> r.amount, timestamp |-> r.timestamp, label |-> r.label]

\* A MERGE that sets the properties on every ingest, not only ON CREATE.
OnMatchTxOverwrite(ts, s, t, r) ==
    { e \in ts : ~(e.src = s /\ e.dst = t /\ e.txid = r.transaction_id) }
        \cup {NewTx(s, t, r)}

\* What MERGE does when the edge (s)-[:TRANSACTS_WITH {txid}]->(t) exists:
\* ON CREATE SET does not run, the edge keeps its properties.
OnMatchTx(ts, s, t, r) == ts

\* MERGE (s)-[x:TRANSACTS_WITH {txid: r.transaction_id}]->(t) ON CREATE SET ...
RECURSIVE MergeTx(_, _, _, _)
MergeTx(ts, binds, k, rl) ==
    IF k > Len(binds) THEN ts
    ELSE LET b == binds[k]
             s == Cur(b.s, rl)
             t == Cur(b.t, rl)
             hit == { e \in ts : e.src = s /\ e.dst = t /\ e.txid = b.r.transaction_id }
         IN  MergeTx(IF hit = {} THEN ts \cup {NewTx(s, t, b.r)}
                                 ELSE OnMatchTx(ts, s, t, b.r),
                     binds, k + 1, rl)

\* A relabelled node keeps its edges and its properties.
RenameRels(rs, rl) == { Rel(e.type, Cur(e.src, rl), e.dst) : e \in rs }

RenameTxs(ts, rl) ==
    { [e EXCEPT !.src = Cur(e.src, rl), !.dst = Cur(e.dst, rl)] : e \in ts }

\* The properties of the identity nodes ns after the statement: a created
\* node has none.
RenameAttrs(as, rl, ns) ==
    [k \in Identities(ns) |->
        LET old == IF k.label = "Merchant" /\ k.id \in rl THEN N(k.id, "User") ELSE k
        IN  IF old \in DOMAIN as THEN as[old] ELSE NoAttrs]

\* The whole statement on graph g; ok = FALSE when it raised (the write
\* transaction is rolled back and the graph stays as it was).
load_batch(g, rows) ==
    LET ns1 == MergeSender(g.nodes, rows)
        m   == MergeReceiver(ns1, rows, 1)
        f   == Relabel(m.nodes, m.binds, 1, {})
    IN  IF ~f.ok THEN [ok |-> FALSE, g |-> g]
        ELSE [ok |-> TRUE,
              g  |-> Graph(f.nodes \cup ResourceNodes(m.binds),
                           RenameRels(g.rels, f.rl) \cup ResourceRels(m.binds, f.rl),
                           MergeTx(RenameTxs(g.txs, f.rl), m.binds, 1, f.rl),
                           RenameAttrs(g.attrs, f.rl, f.nodes))]

CurrentGraph == Graph(nodes, rels, txs, attrs)

(***************************************************************************)
(* Attribute Synthesizer (preprocess_data.py)                              *)
(***************************************************************************)
MaxSenders == 3     \* distinct senders of the input
MaxReceivers == 13  \* distinct receivers of the input
\* The numbers random.randint returns (100000..999999, and 1000..9999 for the
\* e-mail addresses, in the source).
RandomNumbers == {1, 2}

MIN_GROUP == 2
MAX_GROUP == 6
MIN_CONTACT_GROUP == 2      \* random.randint(2, 5)
MAX_CONTACT_GROUP == 5
\* MERCHANT_RATE = 0.16 as the fraction 16/100
MERCHANT_RATE_NUM == 16
MERCHANT_RATE_DEN == 100

NoColumns == [sender_id |-> <<>>, receiver_id |-> <<>>, sender_device_id |-> <<>>,
              receiver_type |-> <<>>, sender_phone |-> <<>>, sender_email |-> <<>>]

\* The synthesizer is not running.
SynthIdle ==
    /\ fn = "none"
    /\ pc = "idle"
    /\ out = NoColumns
    /\ for_sender = [device |-> <<>>, phone |-> <<>>, email |-> <<>>]
    /\ shuffled = <<>>
    /\ i = 0
    /\ group = <<>>

\* An id column with n distinct ids in order of first appearance, the first
\* d of them appearing a second time.
IdColumn(n, d) == [k \in 1..(n + d) |-> IF k <= n THEN k ELSE k - n]

\* out[col].unique().tolist(): the distinct values in order of first appearance.
RECURSIVE unique(_)
unique(col) ==
    IF col = <<>> THEN <<>>
    ELSE LET front == unique(SubSeq(col, 1, Len(col) - 1))
             last  == col[Len(col)]
         IN  IF \E k \in DOMAIN front : front[k] = last THEN front
             ELSE Append(front, last)

Range(f) == { f[x] : x \in DOMAIN f }

\* out[col].map(d)
MapColumn(col, d) == [k \in DOMAIN col |-> d[col[k]]]

\* shuffled[i:i+k], with i counted from 0
Slice(sq, from, to) ==
    IF from >= Len(sq) THEN <<>>
    ELSE SubSeq(sq, from + 1, IF to < Len(sq) THEN to ELSE Len(sq))

\* f"D{random.randint(100000,999999)}" and the like: a prefix and a number.
Value(prefix, n) == [prefix |-> prefix, n |-> n]
RandomValues(prefix) == { Value(prefix, n) : n \in RandomNumbers }

Shuffles(sq) ==
    { [k \in DOMAIN sq |-> sq[f[k]]] : f \in Perms(Len(sq)) }

\* ---------------- assign_merchants ----------------
\* m = int(len(receivers) * MERCHANT_RATE)
MerchantCount(n) == (n * MERCHANT_RATE_NUM) \div MERCHANT_RATE_DEN

\* A sample size without the minimum of 1.
SampleSizeNoMinimum(m) == m

\* m if m > 0 else 1
SampleSize(m) == IF m > 0 THEN m ELSE 1

\* random.sample(receivers, k): the k-subsets; ValueError when k > len(receivers).
Samples(receivers, k) == { S \in SUBSET Range(receivers) : Cardinality(S) = k }

AssignMerchants ==
    /\ fn = "assign_merchants" /\ pc = "start"
    /\ LET receivers == unique(out.receiver_id)
           k == SampleSize(MerchantCount(Len(receivers)))
       IN  /\ k <= Len(receivers)
           /\ \E merchants \in Samples(receivers, k) :
                 out' = [out EXCEPT !.receiver_type =
                            [j \in DOMAIN out.receiver_id |->
                                IF out.receiver_id[j] \in merchants
                                THEN "merchant" ELSE "user"]]
    /\ pc' = "done"
    /\ UNCHANGED <<fn, for_sender, shuffled, i, group>>
    /\ UNCHANGED ingestVars
    /\ UNCHANGED riskVars

\* random.sample raises ValueError on an empty receiver list.
AssignMerchantsRaises ==
    /\ fn = "assign_merchants" /\ pc = "start"
    /\ SampleSize(MerchantCount(Len(unique(out.receiver_id)))) >
           Len(unique(out.receiver_id))
    /\ pc' = "error"
    /\ UNCHANGED <<fn, out, for_sender, shuffled, i, group>>
    /\ UNCHANGED ingestVars
    /\ UNCHANGED riskVars

\* ---------------- assign_devices ----------------
\* device_for_sender = {...}; shuffled = senders.copy(); random.shuffle(shuffled); i = 0
DevStart ==
    /\ fn = "assign_devices" /\ pc = "start"
    /\ LET senders == unique(out.sender_id)
       IN  /\ \E d \in [Range(senders) -> RandomValues("D")] :
                 for_sender' = [for_sender EXCEPT !.device = d]
           /\ shuffled' \in Shuffles(senders)
           /\ group' = [x \in Range(senders) |-> 0]
    /\ i' = 0
    /\ pc' = "loop"
    /\ UNCHANGED <<fn, out>>
    /\ UNCHANGED ingestVars
    /\ UNCHANGED riskVars

\* random.random() < SHARE_RATE, a group of at least 2: one shared device
DevShare ==
    /\ fn = "assign_devices" /\ pc = "loop"
    /\ i < Len(shuffled)
    /\ \E k \in MIN_GROUP..MAX_GROUP :
          LET grp == Slice(shuffled, i, i + k)
          IN  /\ ~(Len(grp) < 2)
              /\ \E shared_id \in RandomValues("D") :
                    for_sender' = [for_sender EXCEPT !.device =
                        [x \in DOMAIN for_sender.device |->
                            IF x \in Range(grp) THEN shared_id
                            ELSE for_sender.device[x]]]
              /\ group' = [x \in DOMAIN group |->
                              IF x \in Range(grp) THEN i + 1 ELSE group[x]]
              /\ i' = i + k
    /\ UNCHANGED <<fn, pc, out, shuffled>>
    /\ UNCHANGED ingestVars
    /\ UNCHANGED riskVars

\* random.random() < SHARE_RATE, but len(group) < 2: break
DevBreak ==
    /\ fn = "assign_devices" /\ pc = "loop"
    /\ i < Len(shuffled)
    /\ \E k \in MIN_GROUP..MAX_GROUP : Len(Slice(shuffled, i, i + k)) < 2
    /\ pc' = "map"
    /\ UNCHANGED <<fn, out, for_sender, shuffled, i, group>>
    /\ UNCHANGED ingestVars
    /\ UNCHANGED riskVars

\* else: i += 1
DevSkip ==
    /\ fn = "assign_devices" /\ pc = "loop"
    /\ i < Len(shuffled)
    /\ i' = i + 1
    /\ UNCHANGED <<fn, pc, out, for_sender, shuffled, group>>
    /\ UNCHANGED ingestVars
    /\ UNCHANGED riskVars

\* while i < len(shuffled) is over
DevExit ==
    /\ fn = "assign_devices" /\ pc = "loop"
    /\ ~(i < Len(shuffled))
    /\ pc' = "map"
    /\ UNCHANGED <<fn, out, for_sender, shuffled, i, group>>
    /\ UNCHANGED ingestVars
    /\ UNCHANGED riskVars

\* out["sender_device_id"] = out["sender_id"].map(device_for_sender); return out
DevMap ==
    /\ fn = "assign_devices" /\ pc = "map"
    /\ out' = [out EXCEPT !.sender_device_id = MapColumn(out.sender_id, for_sender.device)]
    /\ shuffled' = <<>>
    /\ i' = 0
    /\ pc' = "done"
    /\ UNCHANGED <<fn, for_sender, group>>
    /\ UNCHANGED ingestVars
    /\ UNCHANGED riskVars

\* ---------------- assign_locations_and_contacts ----------------
\* phone_for_sender = {...}; email_for_sender = {...}; shuffle; i = 0
ConStart ==
    /\ fn = "assign_locations_and_contacts" /\ pc = "start"
    /\ LET senders == unique(out.sender_id)
       IN  /\ \E p \in [Range(senders) -> RandomValues("P")] :
              \E e \in [Range(senders) -> RandomValues("user")] :
                 for_sender' = [for_sender EXCEPT !.phone = p, !.email = e]
           /\ shuffled' \in Shuffles(senders)
           /\ group' = [x \in Range(senders) |-> 0]
    /\ i' = 0
    /\ pc' = "loop"
    /\ UNCHANGED <<fn, out>>
    /\ UNCHANGED ingestVars
    /\ UNCHANGED riskVars

\* random.random() < PHONE_SHARE_RATE: the group gets one phone and one email
ConShare ==
    /\ fn = "assign_locations_and_contacts" /\ pc = "loop"
    /\ i < Len(shuffled)
    /\ \E k \in MIN_CONTACT_GROUP..MAX_CONTACT_GROUP :
          LET grp == Slice(shuffled, i, i + k)
          IN  /\ \E shared_phone \in RandomValues("P") :
                 \E shared_email \in RandomValues("fraud") :
                    for_sender' = [for_sender EXCEPT
                        !.phone = [x \in DOMAIN for_sender.phone |->
                                      IF x \in Range(grp) THEN shared_phone
                                      ELSE for_sender.phone[x]],
                        !.email = [x \in DOMAIN for_sender.email |->
                                      IF x \in Range(grp) THEN shared_email
                                      ELSE for_sender.email[x]]]
              /\ group' = [x \in DOMAIN group |->
                              IF x \in Range(grp) THEN i + 1 ELSE group[x]]
              /\ i' = i + k
    /\ UNCHANGED <<fn, pc, out, shuffled>>
    /\ UNCHANGED ingestVars
    /\ UNCHANGED riskVars

\* else: i += 1
ConSkip ==
    /\ fn = "assign_locations_and_contacts" /\ pc = "loop"
    /\ i < Len(shuffled)
    /\ i' = i + 1
    /\ UNCHANGED <<fn, pc, out, for_sender, shuffled, group>>
    /\ UNCHANGED ingestVars
    /\ UNCHANGED riskVars

\* the loop is over: out["sender_phone"] = ..., out["sender_email"] = ...; return out
ConMap ==
    /\ fn = "assign_locations_and_contacts" /\ pc = "loop"
    /\ ~(i < Len(shuffled))
    /\ out' = [out EXCEPT !.sender_phone = MapColumn(out.sender_id, for_sender.phone),
                          !.sender_email = MapColumn(out.sender_id, for_sender.email)]
    /\ shuffled' = <<>>
    /\ i' = 0
    /\ pc' = "done"
    /\ UNCHANGED <<fn, for_sender, group>>
    /\ UNCHANGED ingestVars
    /\ UNCHANGED riskVars

\* One of the three functions of main(), called on a cleaned record set.
InitSynth ==
    /\ nodes = {} /\ rels = {} /\ txs = {}
    /\ attrs = <<>>
    /\ err = FALSE /\ log = <<>> /\ rerun = NoRerun
    /\ RiskIdle
    /\ fn \in {"assign_devices", "assign_merchants", "assign_locations_and_contacts"}
    /\ pc = "start"
    /\ \E n \in 0..(IF fn = "assign_merchants" THEN MaxReceivers ELSE MaxSenders) :
       \E d \in 0..(IF n > 0 THEN 1 ELSE 0) :
          out = [NoColumns EXCEPT
                   !.sender_id = IF fn = "assign_merchants"
                                 THEN [k \in 1..(n + d) |-> 1] ELSE IdColumn(n, d),
                   !.receiver_id = IF fn = "assign_merchants"
                                   THEN IdColumn(n, d) ELSE [k \in 1..(n + d) |-> 1]]
    /\ for_sender = [device |-> <<>>, phone |-> <<>>, email |-> <<>>]
    /\ shuffled = <<>>
    /\ i = 0
    /\ group = <<>>

NextSynth ==
    \/ AssignMerchants \/ AssignMerchantsRaises
    \/ DevStart \/ DevShare \/ DevBreak \/ DevSkip \/ DevExit \/ DevMap
    \/ ConStart \/ ConShare \/ ConSkip \/ ConMap

SpecSynth == InitSynth /\ [][NextSynth]_vars

(***************************************************************************)
(* Specification of the ingestor                                           *)
(***************************************************************************)
Init ==
    /\ nodes = {}
    /\ rels = {}
    /\ txs = {}
    /\ attrs = <<>>
    /\ err = FALSE
    /\ log = <<>>
    /\ rerun = NoRerun
    /\ SynthIdle
    /\ RiskIdle

\* s.execute_write(load_batch, rows[i:i+BATCH_SIZE]); an exception ends main().
LoadBatch ==
    /\ ~rerun.done
    /\ ~err
    /\ Total(log) < MaxRecords
    /\ \E rows \in SeqsUpTo(IngestRecords, MaxRecords - Total(log)) :
          LET res == load_batch(CurrentGraph, rows)
          IN  /\ nodes' = res.g.nodes
              /\ rels' = res.g.rels
              /\ txs' = res.g.txs
              /\ attrs' = res.g.attrs
              /\ err' = ~res.ok
              /\ log' = Append(log, rows)
    /\ UNCHANGED rerun
    /\ UNCHANGED synthVars
    /\ UNCHANGED riskVars

\* The batches of main()'s loop, applied in order until one raises.
RECURSIVE Replay(_, _)
Replay(g, batches) ==
    IF batches = <<>> THEN [ok |-> TRUE, g |-> g]
    ELSE LET res == load_batch(g, Head(batches))
         IN  IF res.ok THEN Replay(res.g, Tail(batches)) ELSE res

\* main() run a second time on the same CSV, after a run that completed.
Rerun ==
    /\ ~rerun.done
    /\ ~err
    /\ log # <<>>
    /\ LET res == Replay(CurrentGraph, log)
       IN  /\ nodes' = res.g.nodes
           /\ rels' = res.g.rels
           /\ txs' = res.g.txs
           /\ attrs' = res.g.attrs
           /\ err' = ~res.ok
    /\ rerun' = [done |-> TRUE, nodes |-> Cardinality(nodes),
                 edges |-> Cardinality(rels) + Cardinality(txs)]
    /\ UNCHANGED log
    /\ UNCHANGED synthVars
    /\ UNCHANGED riskVars

Next == LoadBatch \/ Rerun

Spec == Init /\ [][Next]_vars

(***************************************************************************)
(* Risk Scorer (run_algorithms.py)                                         *)
(*                                                                         *)
(* PageRank values are integers in units of 10^-7, so that rounding to 6   *)
(* decimals is rounding to a multiple of 10.  Flags are 1 (true) and 0     *)
(* (false).  degree and community are written by the engine and copied to  *)
(* the export; no rule and no sort key reads them and they are left out.   *)
(***************************************************************************)
ExportLimit == 2    \* LIMIT of the export (1000 in the source)

THREE_SIGMA == 3    \* u.pr > meanPR + 3*sdPR
TWO_SIGMA == 2      \* u.pr > meanPR + 2*sdPR
SUSPICIOUS_CO_USERS == 2
SUSPICIOUS_TRIANGLES == 2
HIGH_RISK_CO_USERS == 4
PR_DECIMALS_UNIT == 10  \* round(..., 6) of a value in units of 10^-7

\* The PageRank values the graph-algorithm engine may write, in units of 10^-7.
PrBase == 20
PrNudged == 24
PrHigh == 200

\* The batches the scorer's graph is built from.
V1 == CHOOSE v \in Variants : v.sender_device_id = "D1"
V2 == CHOOSE v \in Variants : v.sender_device_id = "D2"
RiskBatches ==
    { << Row("T1", "a", "b", "user", V1), Row("T2", "c", "d", "user", V1),
         Row("T3", "e", "f", "user", V2) >>,
      << Row("T4", "e", "c", "merchant", V2) >>,
      << Row("T5", "b", "a", "user", V1) >>,
      << Row("T6", "b", "c", "user", V1), Row("T7", "c", "a", "user", V1),
         Row("T8", "a", "d", "user", V1) >> }

Users(ns) == { n \in ns : n.label = "User" }

coalesce(x, d) == IF x = NULL THEN d ELSE x

RECURSIVE Sum(_, _)
Sum(f, S) == IF S = {} THEN 0
             ELSE LET x == CHOOSE y \in S : TRUE IN f[x] + Sum(f, S \ {x})

\* WITH avg(u.pr) AS meanPR, stDev(u.pr) AS sdPR ... u.pr > meanPR + c*sdPR,
\* over the Users with a pr; stDev is the sample deviation (0 for one value).
\* With n values of sum S and sum of squares Q, and d = n*pr - S:
\*   pr > mean + c*sd  <=>  d > 0 /\ c^2 * n * (n*Q - S^2) < d^2 * (n - 1).
\* NULL when u.pr is absent.
PrAbove(as, ns, u, c) ==
    IF as[u].pr = NULL THEN NULL
    ELSE LET scored == { v \in Users(ns) : as[v].pr # NULL }
             n == Cardinality(scored)
             S == Sum([v \in scored |-> as[v].pr], scored)
             Q == Sum([v \in scored |-> as[v].pr * as[v].pr], scored)
             d == n * as[u].pr - S
         IN  IF d > 0 /\ c * c * n * (n * Q - S * S) < d * d * (n - 1) THEN 1 ELSE 0

\* Cypher's OR over true (1), false (0) and null.
Or3(x, y) == IF x = 1 \/ y = 1 THEN 1 ELSE IF x = NULL \/ y = NULL THEN NULL ELSE 0

AtLeast(x, k) == IF x >= k THEN 1 ELSE 0

\* MATCH (u:User)-[:USES_DEVICE]->(d:Device)<-[:USES_DEVICE]-(v:User) WHERE u <> v
DeviceCoUsers(ns, rs, u) ==
    { v \in Users(ns) \ {u} :
        \E e1, e2 \in rs : /\ e1.type = "USES_DEVICE" /\ e2.type = "USES_DEVICE"
                           /\ e1.src = u /\ e2.src = v /\ e1.dst = e2.dst
                           /\ e1.dst.label = "Device" }

\* The projection 'momo-undir': User nodes, TRANSACTS_WITH edges UNDIRECTED.
Adjacent(ns, ts, u, v) ==
    /\ u # v
    /\ \E e \in ts : (e.src = u /\ e.dst = v) \/ (e.src = v /\ e.dst = u)

\* gds.triangleCount: the triangles of the projection that u is a corner of.
TriangleCount(ns, ts, u) ==
    Cardinality({ p \in SUBSET (Users(ns) \ {u}) :
                    /\ Cardinality(p) = 2
                    /\ \A v \in p : Adjacent(ns, ts, u, v)
                    /\ \A v, w \in p : v # w => Adjacent(ns, ts, v, w) })

\* gds.triangleCount.write / gds.pageRank.write: every User gets the values of
\* this run.  The PageRank is the engine's: one User may stand out (hi) and
\* one may be nudged above the rest.  The engine is deterministic: on a graph
\* that did not change since the last run (rpc = "exported") it writes the
\* values it wrote before.
GdsWrite ==
    /\ rpc \in {"idle", "exported"}
    /\ \E hi \in {"none", "a", "e"}, nudged \in {"none", "b"} :
          attrs' = [k \in DOMAIN attrs |->
                      IF k.label = "User" /\ rpc = "idle"
                      THEN [attrs[k] EXCEPT
                              !.pr = IF k.id = hi THEN PrHigh
                                     ELSE IF k.id = nudged THEN PrNudged ELSE PrBase,
                              !.triangles = TriangleCount(nodes, txs, k)]
                      ELSE attrs[k]]
    /\ rpc' = "scored"
    /\ risk_rows' = <<>>
    /\ UNCHANGED <<nodes, rels, txs, err, log, rerun>>
    /\ UNCHANGED synthVars

\* WITH u, count(DISTINCT v) AS coUsers SET u.coUsers = coUsers: one row per
\* User that has a co-user, none for the others.
CoUsersStep ==
    /\ rpc = "scored"
    /\ attrs' = [k \in DOMAIN attrs |->
                   IF k.label = "User" /\ DeviceCoUsers(nodes, rels, k) # {}
                   THEN [attrs[k] EXCEPT
                           !.coUsers = Cardinality(DeviceCoUsers(nodes, rels, k))]
                   ELSE attrs[k]]
    /\ rpc' = "counted"
    /\ UNCHANGED <<nodes, rels, txs, err, log, rerun, risk_rows>>
    /\ UNCHANGED synthVars

\* SET u.suspicious = (u.pr > meanPR + 3*sdPR) OR (coalesce(u.coUsers,0) >= 2)
\*                    OR (coalesce(u.triangles,0) >= 2), for every User
SuspiciousStep ==
    /\ rpc = "counted"
    /\ attrs' = [k \in DOMAIN attrs |->
                   IF k.label = "User"
                   THEN [attrs[k] EXCEPT !.suspicious =
                           Or3(Or3(PrAbove(attrs, nodes, k, THREE_SIGMA),
                                   AtLeast(coalesce(attrs[k].coUsers, 0),
                                           SUSPICIOUS_CO_USERS)),
                               AtLeast(coalesce(attrs[k].triangles, 0),
                                       SUSPICIOUS_TRIANGLES))]
                   ELSE attrs[k]]
    /\ rpc' = "classified"
    /\ UNCHANGED <<nodes, rels, txs, err, log, rerun, risk_rows>>
    /\ UNCHANGED synthVars

\* WHERE u.suspicious = true AND (coalesce(u.coUsers,0) >= 4 OR u.pr > meanPR + 2*sdPR)
HighRiskRule(as, ns, u) ==
    /\ as[u].suspicious = 1
    /\ Or3(AtLeast(coalesce(as[u].coUsers, 0), HIGH_RISK_CO_USERS),
           PrAbove(as, ns, u, TWO_SIGMA)) = 1

\* The value the highRisk query leaves on a User the WHERE did not select.
NotSelected(old) == old

\* MATCH (u:User) WHERE ... SET u.highRisk = true
HighRiskStep ==
    /\ rpc = "classified"
    /\ attrs' = [k \in DOMAIN attrs |->
                   IF k.label = "User"
                   THEN [attrs[k] EXCEPT !.highRisk =
                           IF HighRiskRule(attrs, nodes, k) THEN 1
                           ELSE NotSelected(attrs[k].highRisk)]
                   ELSE attrs[k]]
    /\ rpc' = "flagged"
    /\ UNCHANGED <<nodes, rels, txs, err, log, rerun, risk_rows>>
    /\ UNCHANGED synthVars

\* round(x, 6), half up, of a value in units of 10^-7
round6(x) == ((x + PR_DECIMALS_UNIT \div 2) \div PR_DECIMALS_UNIT) * PR_DECIMALS_UNIT

\* The RETURN clause for one User.
ExportRow(as, u) ==
    [user      |-> u.id,
     highRisk  |-> coalesce(as[u].highRisk, 0),
     coUsers   |-> coalesce(as[u].coUsers, 0),
     pr        |-> round6(coalesce(as[u].pr, 0)),
     triangles |-> coalesce(as[u].triangles, 0)]

\* MATCH (u:User) WHERE u.suspicious = true OR u.highRisk = true
Candidates(as, ns) ==
    { u \in Users(ns) : as[u].suspicious = 1 \/ as[u].highRisk = 1 }

\* An ORDER BY that leaves highRisk out of the sort key.
OrderedBeforeNoFlag(r1, r2) ==
    \/ r1.coUsers > r2.coUsers
    \/ r1.coUsers = r2.coUsers /\ r1.pr > r2.pr

\* ORDER BY highRisk DESC, coUsers DESC, pr DESC on the returned columns:
\* r1 must come before r2.
OrderedBefore(r1, r2) ==
    \/ r1.highRisk > r2.highRisk
    \/ r1.highRisk = r2.highRisk /\ r1.coUsers > r2.coUsers
    \/ r1.highRisk = r2.highRisk /\ r1.coUsers = r2.coUsers /\ r1.pr > r2.pr

\* ORDER BY ... LIMIT k: the first k rows of every order the sort may give
\* (rows with equal keys come in any order).
RECURSIVE TopRows(_, _)
TopRows(R, k) ==
    IF k = 0 \/ R = {} THEN { <<>> }
    ELSE UNION { { <<r>> \o rest : rest \in TopRows(R \ {r}, k - 1) }
                 : r \in { x \in R : \A y \in R : ~OrderedBefore(y, x) } }

\* rows = s.run(""" MATCH ... RETURN ... ORDER BY ... LIMIT 1000 """).data()
Export ==
    /\ rpc = "flagged"
    /\ risk_rows' \in TopRows({ ExportRow(attrs, u) : u \in Candidates(attrs, nodes) },
                              ExportLimit)
    /\ rpc' = "exported"
    /\ UNCHANGED ingestVars
    /\ UNCHANGED synthVars

\* load_to_neo4j.py run on more rows, between two runs of the scorer.
RiskLoad ==
    /\ rpc \in {"idle", "exported"}
    /\ \E batch \in RiskBatches :
          LET res == load_batch(CurrentGraph, batch)
          IN  /\ nodes' = res.g.nodes
              /\ rels' = res.g.rels
              /\ txs' = res.g.txs
              /\ attrs' = res.g.attrs
              /\ err' = ~res.ok
              /\ rpc' = IF res.g = CurrentGraph THEN rpc ELSE "idle"
              /\ risk_rows' = IF res.g = CurrentGraph THEN risk_rows ELSE <<>>
    /\ UNCHANGED <<log, rerun>>
    /\ UNCHANGED synthVars

NextRisk ==
    \/ RiskLoad \/ GdsWrite \/ CoUsersStep \/ SuspiciousStep \/ HighRiskStep \/ Export

SpecRisk == Init /\ [][NextRisk]_vars

(***************************************************************************)
(* Claims about the ingestor                                               *)
(***************************************************************************)
EdgeCount == Cardinality(rels) + Cardinality(txs)

\* C1: applying load_batch to a batch a second time succeeds and leaves the
\* graph with the same number of nodes and of edges as after the first time.
\* (A run of one batch, then the same run again.)
C1_IdempotentIngestion ==
    (rerun.done /\ Len(log) = 1) =>
        /\ ~err
        /\ Cardinality(nodes) = rerun.nodes
        /\ EdgeCount = rerun.edges

\* C2: at most one node among the User and Merchant nodes carries a given
\* identity id, in every reachable graph.
C2_NoDuplicateEntities ==
    \A x \in Ids : ~(N(x, "User") \in nodes /\ N(x, "Merchant") \in nodes)

\* C3: once an id has been relabelled Merchant (its node is a Merchant and no
\* User carries the id), no ingestion gives the User label back to that id.
C3_RoleMonotone ==
    [][\A x \in Ids :
          (N(x, "Merchant") \in nodes /\ N(x, "User") \notin nodes)
              => N(x, "User") \notin nodes']_vars

\* The nodes a node can be after a step: itself, or itself relabelled.
After(n) == {n, N(n.id, "Merchant")}

\* C4: a stored TRANSACTS_WITH edge keeps its amount, timestamp and label
\* through every ingestion, also of a record with the same transaction_id
\* and other values; and no second edge with that transaction_id appears
\* between its two nodes.
C4_TxImmutable ==
    [][/\ \A e \in txs : \E x \in After(e.src), y \in After(e.dst) :
              [e EXCEPT !.src = x, !.dst = y] \in txs'
       /\ \A e1, e2 \in txs' :
              (e1.src = e2.src /\ e1.dst = e2.dst /\ e1.txid = e2.txid) => e1 = e2
      ]_vars

\* C4 witness: the last batch held a record whose transaction_id, sender and
\* receiver are those of an edge stored by an earlier batch with another
\* amount and timestamp, and the edge still has the earlier values.
C4_Witness ==
    /\ Len(log) = 2
    /\ ~err
    /\ ~rerun.done
    /\ \E e \in txs : \E k \in DOMAIN log[2] : \E j \in DOMAIN log[1] :
          /\ log[2][k].transaction_id = e.txid
          /\ log[2][k].sender_id = e.src.id
          /\ log[2][k].receiver_id = e.dst.id
          /\ log[2][k].amount # e.amount
          /\ log[2][k].timestamp # e.timestamp
          /\ log[1][j].transaction_id = e.txid
          /\ log[1][j].sender_id = e.src.id
          /\ log[1][j].receiver_id = e.dst.id
          /\ log[1][j].amount = e.amount
          /\ log[1][j].timestamp = e.timestamp
          /\ Cardinality({ x \in txs : x.txid = e.txid }) = 1

\* A graph without the create-only properties of its TRANSACTS_WITH edges.
Shape(g) ==
    [nodes |-> g.nodes, rels |-> g.rels,
     txs |-> { [src |-> e.src, dst |-> e.dst, txid |-> e.txid] : e \in g.txs }]

\* C5: the graph reached after all batches were applied (nodes, labels and
\* edges, without the create-only properties) is the same for every order
\* of the batches in which all of them apply.
C5_ReorderSafe ==
    (~rerun.done /\ ~err) =>
        \A f \in Perms(Len(log)) :
            LET other == Replay(EmptyGraph, [k \in 1..Len(log) |-> log[f[k]]])
            IN  other.ok => Shape(other.g) = Shape(CurrentGraph)

(***************************************************************************)
(* Claims about the synthesizer                                            *)
(***************************************************************************)
MerchantSet ==
    { out.receiver_id[k] : k \in { j \in DOMAIN out.receiver_type :
                                      out.receiver_type[j] = "merchant" } }

ReceiverUniverse == Range(out.receiver_id)

Max(x, y) == IF x >= y THEN x ELSE y

\* round(n * MERCHANT_RATE), in integers (n * 16 / 100 is never at a half)
RoundedMerchantCount(n) ==
    (2 * n * MERCHANT_RATE_NUM + MERCHANT_RATE_DEN) \div (2 * MERCHANT_RATE_DEN)

MerchantsAssigned == fn = "assign_merchants" /\ pc = "done"

\* Every receiver is a merchant or a user, and all its rows say the same.
RolesConsistent ==
    /\ DOMAIN out.receiver_type = DOMAIN out.receiver_id
    /\ \A k \in DOMAIN out.receiver_type : out.receiver_type[k] \in {"merchant", "user"}
    /\ \A j, k \in DOMAIN out.receiver_id :
          out.receiver_id[j] = out.receiver_id[k]
              => out.receiver_type[j] = out.receiver_type[k]

\* C9 as stated: the merchants are a subset of the receiver universe of size
\* exactly max(1, round(receiver_count * merchant_rate)); every other
\* receiver is a user and every occurrence of a receiver has the same role.
C9_MerchantsRounded ==
    (MerchantsAssigned /\ ReceiverUniverse # {}) =>
        /\ MerchantSet \subseteq ReceiverUniverse
        /\ Cardinality(MerchantSet) =
               Max(1, RoundedMerchantCount(Cardinality(ReceiverUniverse)))
        /\ RolesConsistent

\* C9 amended: the size is max(1, floor(receiver_count * merchant_rate)).
C9_MerchantsFloored ==
    (MerchantsAssigned /\ ReceiverUniverse # {}) =>
        /\ MerchantSet \subseteq ReceiverUniverse
        /\ Cardinality(MerchantSet) =
               Max(1, (Cardinality(ReceiverUniverse) * MERCHANT_RATE_NUM)
                          \div MERCHANT_RATE_DEN)
        /\ RolesConsistent

\* C9 witness: 10 receivers (1.6 floors to 1 and rounds to 2), one of them on
\* two rows and a merchant.
C9_Witness ==
    /\ MerchantsAssigned
    /\ Cardinality(ReceiverUniverse) = 10
    /\ Len(out.receiver_id) = 11
    /\ MerchantSet = {out.receiver_id[11]}

SendersDone ==
    /\ fn \in {"assign_devices", "assign_locations_and_contacts"}
    /\ pc = "done"

\* Two distinct senders hold the same value of a family only if they were
\* placed in the same sharing group.
SharedOnlyInGroup(family) ==
    \A x, y \in DOMAIN family :
        (x # y /\ family[x] = family[y]) => (group[x] # 0 /\ group[x] = group[y])

\* Every row of a sender carries the one value of the sender.
OneValue(col, family) ==
    /\ DOMAIN col = DOMAIN out.sender_id
    /\ \A k \in DOMAIN col : col[k] = family[out.sender_id[k]]

\* C10: after a pass every sender has exactly one value of the family, and two
\* distinct senders hold the same value only if they were placed in the same
\* sharing group of that pass (ungrouped senders hold values no one else has).
C10_SharedOnlyInGroup ==
    SendersDone =>
        IF fn = "assign_devices"
        THEN /\ OneValue(out.sender_device_id, for_sender.device)
             /\ SharedOnlyInGroup(for_sender.device)
        ELSE /\ OneValue(out.sender_phone, for_sender.phone)
             /\ OneValue(out.sender_email, for_sender.email)
             /\ SharedOnlyInGroup(for_sender.phone)
             /\ SharedOnlyInGroup(for_sender.email)

\* The senders placed in the sharing group that started at cursor g - 1.
Members(g) == { x \in DOMAIN group : group[x] = g }

\* A sharing group is 2 or more consecutive identities of the shuffled list.
GroupsOfTwoOrMore ==
    \A g \in Range(group) \ {0} :
        /\ Cardinality(Members(g)) >= 2
        /\ Members(g) = Range(Slice(shuffled, g - 1, g - 1 + Cardinality(Members(g))))

\* C11: in the sharing pass of every family (device, and phone/email), at
\* every point of the loop and when it is left, every sharing group made so
\* far is 2 or more consecutive identities of the shuffled list: a share draw
\* that finds fewer than 2 identities left assigns no shared value, so the
\* last identity keeps the value it was initialized with.  (No identity is in
\* two groups: each sender has one group number.)
C11_NoGroupOfOne ==
    (fn \in {"assign_devices", "assign_locations_and_contacts"}
        /\ pc \in {"loop", "map"}) => GroupsOfTwoOrMore

(***************************************************************************)
(* Claims about the risk scorer                                            *)
(***************************************************************************)
\* C6: after the highRisk step of every run, every User whose highRisk flag
\* is true is suspicious and satisfies (co-users >= 4 or PageRank above
\* mean + 2 sd) under the stored features and the statistics of this run.
C6_HighRiskCurrent ==
    rpc \in {"flagged", "exported"} =>
        \A u \in Users(nodes) :
            attrs[u].highRisk = 1 =>
                /\ attrs[u].suspicious = 1
                /\ \/ coalesce(attrs[u].coUsers, 0) >= HIGH_RISK_CO_USERS
                   \/ PrAbove(attrs, nodes, u, TWO_SIGMA) = 1

\* C7: after the co-user step of every run, the stored co-user count of every
\* User (0 when absent) is the number of distinct other Users sharing a
\* Device with it in the current graph.
C7_CoUsersCurrent ==
    rpc \in {"counted", "classified", "flagged", "exported"} =>
        \A u \in Users(nodes) :
            coalesce(attrs[u].coUsers, 0) = Cardinality(DeviceCoUsers(nodes, rels, u))

Min(x, y) == IF x <= y THEN x ELSE y

\* The User node an exported row is about.
RowUser(r) == N(r.user, "User")

\* (highRisk, coUsers, pr) descending: key k1 strictly before key k2.
KeyBefore(k1, k2) ==
    \/ k1[1] > k2[1]
    \/ k1[1] = k2[1] /\ k1[2] > k2[2]
    \/ k1[1] = k2[1] /\ k1[2] = k2[2] /\ k1[3] > k2[3]

\* The sort key of C8 as stated: absent highRisk is false, absent numbers are 0.
PageRankKey(u) ==
    << coalesce(attrs[u].highRisk, 0), coalesce(attrs[u].coUsers, 0),
       coalesce(attrs[u].pr, 0) >>

\* The same with the PageRank rounded to 6 decimals, half up.
RoundedPageRankKey(u) ==
    << coalesce(attrs[u].highRisk, 0), coalesce(attrs[u].coUsers, 0),
       10 * ((coalesce(attrs[u].pr, 0) + 5) \div 10) >>

\* The export is the first min(N, limit) rows of the candidates sorted by Key.
ExportIsTopBy(Key(_)) ==
    LET cands == Candidates(attrs, nodes)
        listed == { RowUser(risk_rows[k]) : k \in DOMAIN risk_rows }
    IN  /\ Len(risk_rows) = Min(Cardinality(cands), ExportLimit)
        /\ listed \subseteq cands
        /\ Cardinality(listed) = Len(risk_rows)
        /\ \A j, k \in DOMAIN risk_rows :
              j < k => ~KeyBefore(Key(RowUser(risk_rows[k])), Key(RowUser(risk_rows[j])))
        /\ \A u \in cands \ listed : \A k \in DOMAIN risk_rows :
              ~KeyBefore(Key(u), Key(RowUser(risk_rows[k])))
        /\ \A k \in DOMAIN risk_rows :
              /\ risk_rows[k].highRisk = Key(RowUser(risk_rows[k]))[1]
              /\ risk_rows[k].coUsers = Key(RowUser(risk_rows[k]))[2]

\* C8 as stated: the export is the first min(N, maximum) users of the
\* suspicious-or-high-risk users sorted by (highRisk, co-user count, PageRank)
\* descending, absent highRisk read as false and absent numbers as zero.
C8_ExportSortedByPageRank ==
    rpc = "exported" => ExportIsTopBy(PageRankKey)

\* C8 amended: the third sort key is the PageRank rounded to 6 decimals.
C8_ExportSortedByRoundedPageRank ==
    rpc = "exported" => ExportIsTopBy(RoundedPageRankKey)

\* C8 witness: more candidates than the limit, exactly the limit exported, a
\* highRisk row directly before a row that is not highRisk and has the same
\* co-user count.
C8_Witness ==
    /\ rpc = "exported"
    /\ Cardinality(Candidates(attrs, nodes)) > ExportLimit
    /\ Len(risk_rows) = ExportLimit
    /\ \E k \in 1..(Len(risk_rows) - 1) :
          /\ risk_rows[k].highRisk = 1
          /\ risk_rows[k + 1].highRisk = 0
          /\ risk_rows[k].coUsers = risk_rows[k + 1].coUsers

====
